---- MODULE Spec2Model ----
(***************************************************************************)
(* Model of backend/server.js: an Express server that validates            *)
(* { nome, email } payloads posted to /api/enviar and appends each         *)
(* accepted submission to data/submissoes.jsonl and data/submissoes.csv.   *)
(*                                                                         *)
(* Strings are sequences of one-character strings, so that trimming, the   *)
(* e-mail regular expression, JSON escaping and CSV quoting are computed   *)
(* character by character.  Every await of the source is a separate step.  *)
(***************************************************************************)
EXTENDS Integers, Sequences, FiniteSets, TLC

(* ------------------------------ bounds -------------------------------- *)

\* requests that may be in flight together (specification Spec)
MaxConc == 2
\* requests handled one after another (specification SpecSeq)
MaxSeq == 2
\* longest nome / email string drawn for the validator (SpecValidate)
MaxNomeLen == 3
MaxEmailLen == 5
\* readings of the clock: new Date() yields one of 0..MaxClock
MaxClock == 1
\* runs of ensureStorage in a row, and rows of a pre-existing store (SpecInit)
MaxRuns == 2
MaxRows == 2

(* --------------------------- generic helpers -------------------------- *)

Max(a, b) == IF a >= b THEN a ELSE b

RECURSIVE Flatten(_)
Flatten(ss) == IF ss = <<>> THEN <<>> ELSE Head(ss) \o Flatten(Tail(ss))

\* the sequences over S of length at most n
SeqsUpTo(S, n) == UNION {[1..k -> S] : k \in 0..n}

IsPrefix(s, t) == Len(s) <= Len(t) /\ SubSeq(t, 1, Len(s)) = s

(* ----------------------------- JS values ------------------------------ *)

LF == "\n"
Quote == "\""
Backslash == "\\"

\* what String.prototype.trim strips and \S refuses
WhiteSpace == {" ", LF, "\t", "\r"}

Undefined == [t |-> "undefined", s |-> <<>>, n |-> 0]
Null == [t |-> "null", s |-> <<>>, n |-> 0]
Num(k) == [t |-> "number", s |-> <<>>, n |-> k]
Bool(b) == [t |-> "boolean", s |-> <<>>, n |-> IF b THEN 1 ELSE 0]
Str(chars) == [t |-> "string", s |-> chars, n |-> 0]
Obj == [t |-> "object", s |-> <<>>, n |-> 1]

\* ToBoolean, as used by the ! operator
Truthy(v) ==
  CASE v.t = "undefined" -> FALSE
    [] v.t = "null" -> FALSE
    [] v.t = "number" -> v.n # 0
    [] v.t = "boolean" -> v.n = 1
    [] v.t = "string" -> v.s # <<>>
    [] OTHER -> TRUE

\* a request body: a JSON object with (possibly missing) nome and email, or
\* a value that is no object at all
Body(nome, email) == [t |-> "object", nome |-> nome, email |-> email]
NullBody == [t |-> "null", nome |-> Undefined, email |-> Undefined]
UndefinedBody == [t |-> "undefined", nome |-> Undefined, email |-> Undefined]
NumberBody == [t |-> "number", nome |-> Undefined, email |-> Undefined]
NoBody == [t |-> "none", nome |-> Undefined, email |-> Undefined]

RECURSIVE TrimStart(_)
TrimStart(s) ==
  IF s # <<>> /\ Head(s) \in WhiteSpace THEN TrimStart(Tail(s)) ELSE s

RECURSIVE TrimEnd(_)
TrimEnd(s) ==
  IF s # <<>> /\ s[Len(s)] \in WhiteSpace
  THEN TrimEnd(SubSeq(s, 1, Len(s) - 1)) ELSE s

Trim(s) == TrimEnd(TrimStart(s))

\* /^\S+@\S+\.\S+$/.test(s): \S also matches "@" and ".", so the match
\* exists iff s has no white space and some "@" after at least one
\* character is followed, at least one character later, by a "." that is
\* not the last character
emailRegex(s) ==
  /\ \A i \in 1..Len(s) : s[i] \notin WhiteSpace
  /\ \E i \in 2..Len(s) :
       /\ s[i] = "@"
       /\ \E j \in (i + 2)..(Len(s) - 1) : s[j] = "."

(* ------------------------------ validator ----------------------------- *)

\* the messages of the source, without their diacritics
NomeMessage == "Nome invalido. Use ao menos 2 caracteres."
EmailMessage == "Email invalido."
InternalMessage == "Erro interno ao processar a requisicao."

\* const { nome, email } = body  throws a TypeError on null and undefined
Destructurable(body) == body.t \notin {"null", "undefined"}

validatePayloadMutOrder(body) ==
  IF ~Destructurable(body)
  THEN [raised |-> TRUE, ok |-> FALSE, message |-> "TypeError"]
  ELSE LET nome == IF body.t = "object" THEN body.nome ELSE Undefined
           email == IF body.t = "object" THEN body.email ELSE Undefined
       IN  IF ~Truthy(email) \/ email.t # "string" \/ ~emailRegex(email.s)
           THEN [raised |-> FALSE, ok |-> FALSE, message |-> EmailMessage]
           ELSE IF ~Truthy(nome) \/ nome.t # "string" \/ Len(Trim(nome.s)) < 2
           THEN [raised |-> FALSE, ok |-> FALSE, message |-> NomeMessage]
           ELSE [raised |-> FALSE, ok |-> TRUE, message |-> ""]

validatePayload(body) ==
  IF ~Destructurable(body)
  THEN [raised |-> TRUE, ok |-> FALSE, message |-> "TypeError"]
  ELSE LET nome == IF body.t = "object" THEN body.nome ELSE Undefined
           email == IF body.t = "object" THEN body.email ELSE Undefined
       IN  IF ~Truthy(nome) \/ nome.t # "string" \/ Len(Trim(nome.s)) < 2
           THEN [raised |-> FALSE, ok |-> FALSE, message |-> NomeMessage]
           ELSE IF ~Truthy(email) \/ email.t # "string" \/ ~emailRegex(email.s)
           THEN [raised |-> FALSE, ok |-> FALSE, message |-> EmailMessage]
           ELSE [raised |-> FALSE, ok |-> TRUE, message |-> ""]

(* ---------------------------- serialisation --------------------------- *)

Digits == <<"0", "1", "2", "3", "4", "5", "6", "7", "8", "9">>

\* new Date(t).toISOString(), shortened to a date mark, one digit and the
\* zone mark: it never holds a comma, a double quote or a line feed
toISOString(t) == <<"T", Digits[t + 1], "Z">>

\* str.replace(/"/g, '""')
RECURSIVE DoubleQuotes(_)
DoubleQuotes(s) ==
  IF s = <<>> THEN <<>>
  ELSE (IF Head(s) = Quote THEN <<Quote, Quote>> ELSE <<Head(s)>>)
         \o DoubleQuotes(Tail(s))

toCSVCellMutNoLF(value) ==
  IF value.t \in {"null", "undefined"} THEN <<>>
  ELSE LET str == value.s
       IN  IF \E i \in 1..Len(str) : str[i] \in {Quote, ","}
           THEN <<Quote>> \o DoubleQuotes(str) \o <<Quote>>
           ELSE str

toCSVCell(value) ==
  IF value.t \in {"null", "undefined"} THEN <<>>
  ELSE LET str == value.s
       IN  IF \E i \in 1..Len(str) : str[i] \in {Quote, ",", LF}
           THEN <<Quote>> \o DoubleQuotes(str) \o <<Quote>>
           ELSE str

\* the string escapes of JSON.stringify
RECURSIVE JSONEscape(_)
JSONEscape(s) ==
  IF s = <<>> THEN <<>>
  ELSE (CASE Head(s) = Quote -> <<Backslash, Quote>>
          [] Head(s) = Backslash -> <<Backslash, Backslash>>
          [] Head(s) = LF -> <<Backslash, "n">>
          [] Head(s) = "\t" -> <<Backslash, "t">>
          [] Head(s) = "\r" -> <<Backslash, "r">>
          [] OTHER -> <<Head(s)>>)
         \o JSONEscape(Tail(s))

JSONString(s) == <<Quote>> \o JSONEscape(s) \o <<Quote>>

KeyTimestamp == <<"t", "i", "m", "e", "s", "t", "a", "m", "p">>
KeyNome == <<"n", "o", "m", "e">>
KeyEmail == <<"e", "m", "a", "i", "l">>

\* JSON.stringify({ timestamp, nome, email })
JSONStringify(record) ==
  <<"{">> \o JSONString(KeyTimestamp) \o <<":">> \o JSONString(record.timestamp)
    \o <<",">> \o JSONString(KeyNome) \o <<":">> \o JSONString(record.nome)
    \o <<",">> \o JSONString(KeyEmail) \o <<":">> \o JSONString(record.email)
    \o <<"}">>

jsonlLine(record) == JSONStringify(record) \o <<LF>>

csvLine(record) ==
  toCSVCell(Str(record.timestamp)) \o <<",">> \o toCSVCell(Str(record.nome))
    \o <<",">> \o toCSVCell(Str(record.email)) \o <<LF>>

\* 'timestamp,nome,email\n'
header == KeyTimestamp \o <<",">> \o KeyNome \o <<",">> \o KeyEmail \o <<LF>>

NoRecord == [timestamp |-> <<>>, nome |-> <<>>, email |-> <<>>]

(* -------------------------------- state ------------------------------- *)

JSONL_PATH == "submissoes.jsonl"
CSV_PATH == "submissoes.csv"
Paths == {JSONL_PATH, CSV_PATH}

\* process 0 is the app.listen callback, 1.. are POST /api/enviar requests
Startup == 0
Reqs == 1..Max(MaxConc, MaxSeq)
Procs == {Startup} \cup Reqs

\* what a failing file-system call rejects with
Errors == {"EACCES", "ENOSPC"}

VARIABLES
  dirExists,  \* data/ exists
  exists,     \* exists[f]: file f exists
  data,       \* data[f]: the characters of file f
  pc,         \* pc[p]: the await process p is suspended at
  body,       \* body[r]: req.body of request r
  res,        \* res[r]: the response sent to request r (status 0: none yet)
  rec,        \* rec[r]: the record persistSubmission built for request r
  started,    \* outcome of the app.listen callback
  now,        \* the last reading of the clock
  arrived,    \* number of requests received so far
  overlap,    \* history: some request arrived while another process was running
  appends,    \* history: appends[r], the files request r appended to, in order
  snaps       \* history: the store at the start and after each completed
              \* run of ensureStorage (SpecInit)

vars == <<dirExists, exists, data, pc, body, res, rec, started, now,
          arrived, overlap, appends, snaps>>

Store == [dir |-> dirExists, exists |-> exists, data |-> data]

InFlight == {p \in Procs : pc[p] \notin {"idle", "done"}}

NoResponse == [status |-> 0, message |-> ""]

(* ---------------------------- initial states -------------------------- *)

AbsentStore ==
  [dir |-> FALSE, exists |-> [f \in Paths |-> FALSE], data |-> [f \in Paths |-> <<>>]]

\* the store ensureStorage leaves when it starts from nothing
FreshStore ==
  [dir |-> TRUE, exists |-> [f \in Paths |-> TRUE],
   data |-> [f \in Paths |-> IF f = CSV_PATH THEN header ELSE <<>>]]

InitWith(store, startupPc, outcome) ==
  /\ dirExists = store.dir
  /\ exists = store.exists
  /\ data = store.data
  /\ pc = [p \in Procs |-> IF p = Startup THEN startupPc ELSE "idle"]
  /\ body = [r \in Reqs |-> NoBody]
  /\ res = [r \in Reqs |-> NoResponse]
  /\ rec = [r \in Reqs |-> NoRecord]
  /\ started = outcome
  /\ now = 0
  /\ arrived = 0
  /\ overlap = FALSE
  /\ appends = [r \in Reqs |-> <<>>]
  /\ snaps = <<store>>

(* ------------------------------- actions ------------------------------ *)

\* the error middleware
ErrorResponse(e) == [status |-> 500, message |-> InternalMessage]

\* a rejected await: the listen callback logs it, a request handler passes
\* it to next(err) and the error middleware answers
Throw(p, e) ==
  /\ pc' = [pc EXCEPT ![p] = "done"]
  /\ IF p = Startup
     THEN started' = "failed" /\ res' = res
     ELSE started' = started /\ res' = [res EXCEPT ![p] = ErrorResponse(e)]

\* ensureStorage resolved.  The listen callback logs and ends; a handler
\* goes on into persistSubmission, which reads the clock, builds the record
\* and issues the first append
EnsureReturn(p, t) ==
  /\ res' = res
  /\ IF p = Startup
     THEN /\ pc' = [pc EXCEPT ![p] = "done"]
          /\ started' = "ok"
          /\ UNCHANGED <<rec, now>>
     ELSE /\ pc' = [pc EXCEPT ![p] = "appendJsonl"]
          /\ started' = started
          /\ now' = t
          /\ rec' = [rec EXCEPT ![p] = [timestamp |-> toISOString(t),
                                        nome |-> body[p].nome.s,
                                        email |-> body[p].email.s]]

\* POST /api/enviar up to its first await (lines 141-161)
HandleMutStorageFirst(r, b) ==
  LET check == validatePayload(b)
  IN  /\ body' = [body EXCEPT ![r] = b]
      /\ dirExists' = TRUE
      /\ IF check.raised
         THEN /\ pc' = [pc EXCEPT ![r] = "done"]
              /\ res' = [res EXCEPT ![r] = ErrorResponse(check.message)]
         ELSE IF ~check.ok
         THEN /\ pc' = [pc EXCEPT ![r] = "done"]
              /\ res' = [res EXCEPT ![r] = [status |-> 400, message |-> check.message]]
         ELSE /\ pc' = [pc EXCEPT ![r] = "accessJsonl"]
              /\ res' = res

Handle(r, b) ==
  LET check == validatePayload(b)
  IN  /\ body' = [body EXCEPT ![r] = b]
      /\ dirExists' = dirExists
      /\ IF check.raised
         THEN /\ pc' = [pc EXCEPT ![r] = "done"]
              /\ res' = [res EXCEPT ![r] = ErrorResponse(check.message)]
         ELSE IF ~check.ok
         THEN /\ pc' = [pc EXCEPT ![r] = "done"]
              /\ res' = [res EXCEPT ![r] = [status |-> 400, message |-> check.message]]
         ELSE /\ pc' = [pc EXCEPT ![r] = "mkdir"]
              /\ res' = res

\* request r arrives with a body drawn from B; requests are numbered in the
\* order they arrive
Enviar(r, B, limit) ==
  /\ pc[r] = "idle"
  /\ r = arrived + 1
  /\ r <= limit
  /\ \E b \in B : Handle(r, b)
  /\ arrived' = r
  /\ overlap' = (overlap \/ InFlight # {})
  /\ UNCHANGED <<exists, data, rec, started, now, appends, snaps>>

\* await fsp.mkdir(DATA_DIR, { recursive: true })
Mkdir(p) ==
  /\ pc[p] = "mkdir"
  /\ \/ /\ dirExists' = TRUE
        /\ pc' = [pc EXCEPT ![p] = "accessJsonl"]
        /\ UNCHANGED <<res, started>>
     \/ /\ \E e \in Errors : Throw(p, e)
        /\ dirExists' = dirExists
  /\ UNCHANGED <<exists, data, body, rec, now, arrived, overlap, appends, snaps>>

\* await fsp.access(JSONL_PATH, F_OK), and its catch
AccessJsonl(p) ==
  /\ pc[p] = "accessJsonl"
  /\ pc' = [pc EXCEPT ![p] = IF exists[JSONL_PATH] THEN "accessCsv" ELSE "writeJsonl"]
  /\ UNCHANGED <<dirExists, exists, data, body, res, rec, started, now,
                 arrived, overlap, appends, snaps>>

\* await fsp.writeFile(JSONL_PATH, '', 'utf8'): creates or truncates
WriteJsonl(p) ==
  /\ pc[p] = "writeJsonl"
  /\ \/ /\ dirExists
        /\ exists' = [exists EXCEPT ![JSONL_PATH] = TRUE]
        /\ data' = [data EXCEPT ![JSONL_PATH] = <<>>]
        /\ pc' = [pc EXCEPT ![p] = "accessCsv"]
        /\ UNCHANGED <<res, started>>
     \/ /\ \E e \in Errors : Throw(p, e)
        /\ UNCHANGED <<exists, data>>
  /\ UNCHANGED <<dirExists, body, rec, now, arrived, overlap, appends, snaps>>

\* await fsp.access(CSV_PATH, F_OK), and its catch
AccessCsvMutAlways(p) ==
  /\ pc[p] = "accessCsv"
  /\ pc' = [pc EXCEPT ![p] = "writeCsv"]
  /\ UNCHANGED <<dirExists, exists, data, body, res, rec, started, now,
                 arrived, overlap, appends, snaps>>

AccessCsv(p) ==
  /\ pc[p] = "accessCsv"
  /\ IF exists[CSV_PATH]
     THEN \E t \in now..MaxClock : EnsureReturn(p, t)
     ELSE /\ pc' = [pc EXCEPT ![p] = "writeCsv"]
          /\ UNCHANGED <<res, rec, started, now>>
  /\ UNCHANGED <<dirExists, exists, data, body, arrived, overlap, appends, snaps>>

\* await fsp.writeFile(CSV_PATH, header, 'utf8'): creates or truncates
WriteCsvMutAppend(p) ==
  /\ pc[p] = "writeCsv"
  /\ \/ /\ dirExists
        /\ exists' = [exists EXCEPT ![CSV_PATH] = TRUE]
        /\ data' = [data EXCEPT ![CSV_PATH] = @ \o header]
        /\ \E t \in now..MaxClock : EnsureReturn(p, t)
     \/ /\ \E e \in Errors : Throw(p, e)
        /\ UNCHANGED <<exists, data, rec, now>>
  /\ UNCHANGED <<dirExists, body, arrived, overlap, appends, snaps>>

WriteCsv(p) ==
  /\ pc[p] = "writeCsv"
  /\ \/ /\ dirExists
        /\ exists' = [exists EXCEPT ![CSV_PATH] = TRUE]
        /\ data' = [data EXCEPT ![CSV_PATH] = header]
        /\ \E t \in now..MaxClock : EnsureReturn(p, t)
     \/ /\ \E e \in Errors : Throw(p, e)
        /\ UNCHANGED <<exists, data, rec, now>>
  /\ UNCHANGED <<dirExists, body, arrived, overlap, appends, snaps>>

\* await fsp.appendFile(JSONL_PATH, jsonlLine, 'utf8'): creates when absent
AppendJsonl(r) ==
  /\ pc[r] = "appendJsonl"
  /\ \/ /\ dirExists
        /\ exists' = [exists EXCEPT ![JSONL_PATH] = TRUE]
        /\ data' = [data EXCEPT ![JSONL_PATH] = @ \o jsonlLine(rec[r])]
        /\ appends' = [appends EXCEPT ![r] = Append(@, JSONL_PATH)]
        /\ pc' = [pc EXCEPT ![r] = "appendCsv"]
        /\ UNCHANGED <<res, started>>
     \/ /\ \E e \in Errors : Throw(r, e)
        /\ UNCHANGED <<exists, data, appends>>
  /\ UNCHANGED <<dirExists, body, rec, now, arrived, overlap, snaps>>

\* await fsp.appendFile(CSV_PATH, csvLine, 'utf8') and, when it resolves,
\* res.json({ status: 'sucesso', ... })
AppendCsvMutSwallow(r) ==
  /\ pc[r] = "appendCsv"
  /\ \/ /\ dirExists
        /\ exists' = [exists EXCEPT ![CSV_PATH] = TRUE]
        /\ data' = [data EXCEPT ![CSV_PATH] = @ \o csvLine(rec[r])]
        /\ appends' = [appends EXCEPT ![r] = Append(@, CSV_PATH)]
     \/ UNCHANGED <<exists, data, appends>>
  /\ pc' = [pc EXCEPT ![r] = "done"]
  /\ res' = [res EXCEPT ![r] = [status |-> 200, message |-> "Dados gravados com sucesso."]]
  /\ UNCHANGED started
  /\ UNCHANGED <<dirExists, body, rec, now, arrived, overlap, snaps>>

AppendCsvMutWrite(r) ==
  /\ pc[r] = "appendCsv"
  /\ \/ /\ dirExists
        /\ exists' = [exists EXCEPT ![CSV_PATH] = TRUE]
        /\ data' = [data EXCEPT ![CSV_PATH] = csvLine(rec[r])]
        /\ appends' = [appends EXCEPT ![r] = Append(@, CSV_PATH)]
        /\ pc' = [pc EXCEPT ![r] = "done"]
        /\ res' = [res EXCEPT ![r] = [status |-> 200, message |-> "Dados gravados com sucesso."]]
        /\ UNCHANGED started
     \/ /\ \E e \in Errors : Throw(r, e)
        /\ UNCHANGED <<exists, data, appends>>
  /\ UNCHANGED <<dirExists, body, rec, now, arrived, overlap, snaps>>

AppendCsv(r) ==
  /\ pc[r] = "appendCsv"
  /\ \/ /\ dirExists
        /\ exists' = [exists EXCEPT ![CSV_PATH] = TRUE]
        /\ data' = [data EXCEPT ![CSV_PATH] = @ \o csvLine(rec[r])]
        /\ appends' = [appends EXCEPT ![r] = Append(@, CSV_PATH)]
        /\ pc' = [pc EXCEPT ![r] = "done"]
        /\ res' = [res EXCEPT ![r] = [status |-> 200, message |-> "Dados gravados com sucesso."]]
        /\ UNCHANGED started
     \/ /\ \E e \in Errors : Throw(r, e)
        /\ UNCHANGED <<exists, data, appends>>
  /\ UNCHANGED <<dirExists, body, rec, now, arrived, overlap, snaps>>

\* the steps of ensureStorage and persistSubmission, for any process
StorageStep ==
  \E p \in Procs :
    \/ Mkdir(p)
    \/ AccessJsonl(p)
    \/ WriteJsonl(p)
    \/ AccessCsv(p)
    \/ WriteCsv(p)
    \/ AppendJsonl(p)
    \/ AppendCsv(p)

(* --------------------------- specifications --------------------------- *)

ValidEmail == Str(<<"a", "@", "a", ".", "a">>)

\* Spec: the listen callback and up to MaxConc requests, every await of
\* each interleaved with every await of the others
ConcBodies ==
  { Body(Str(<<"a", ",", "b">>), ValidEmail),
    Body(Str(<<"a">>), ValidEmail) }

Init == \E store \in {AbsentStore, FreshStore} : InitWith(store, "mkdir", "pending")

\* the listen callback is over: it created the store, or its mkdir was
\* rejected and nothing exists
InitListening ==
  \/ InitWith(FreshStore, "done", "ok")
  \/ InitWith(AbsentStore, "done", "failed")

Arrive == \E r \in Reqs : Enviar(r, ConcBodies, MaxConc)

Next == Arrive \/ StorageStep

Spec == Init /\ [][Next]_vars

\* SpecSeq: after the listen callback, up to MaxSeq requests, each received
\* after the one before was answered
\* every two-character nome over the alphabet, and one holding a line feed
SeqAlphabet == {"a", ",", Quote}

SeqNomes ==
  {s \in SeqsUpTo(SeqAlphabet, 2) : Len(s) = 2} \cup {<<"a", LF, "a">>}

SeqBodies ==
  {Body(Str(s), ValidEmail) : s \in SeqNomes} \cup {Body(Str(<<"a", "b">>), Str(<<"a", "@">>))}

ArriveSeq == InFlight = {} /\ \E r \in Reqs : Enviar(r, SeqBodies, MaxSeq)

NextSeq == ArriveSeq \/ StorageStep

SpecSeq == InitListening /\ [][NextSeq]_vars

\* SpecValidate: after the listen callback, one request whose body is drawn
\* from every shape: no object, fields missing, of another type, any string
NonStrings == {Undefined, Null, Num(0), Num(7), Bool(TRUE), Bool(FALSE), Obj}

AllNomes ==
  NonStrings \cup {Str(s) : s \in SeqsUpTo({"a", " ", LF}, MaxNomeLen)}

AllEmails ==
  NonStrings \cup {Str(s) : s \in SeqsUpTo({"a", "@", ".", " "}, MaxEmailLen)}

NonObjects == {NullBody, UndefinedBody, NumberBody}

ArriveAny ==
  /\ InFlight = {}
  /\ arrived = 0
  /\ \/ \E n \in AllNomes, e \in AllEmails : Enviar(1, {Body(n, e)}, 1)
     \/ Enviar(1, NonObjects, 1)

NextValidate == ArriveAny \/ StorageStep

SpecValidate == InitListening /\ [][NextValidate]_vars

\* SpecInit: ensureStorage run to completion MaxRuns times in a row, from
\* any store the program can have left behind
InitRecords ==
  { [timestamp |-> toISOString(0), nome |-> <<"a", "b">>, email |-> ValidEmail.s],
    [timestamp |-> toISOString(1), nome |-> <<"a", LF, "b">>, email |-> ValidEmail.s] }

InitStores ==
  {AbsentStore}
    \cup { [dir |-> TRUE,
            exists |-> [f \in Paths |-> IF f = JSONL_PATH THEN ej ELSE ec],
            data |-> [f \in Paths |->
                        IF f = JSONL_PATH
                        THEN (IF ej THEN Flatten([i \in 1..Len(js) |-> jsonlLine(js[i])]) ELSE <<>>)
                        ELSE (IF ec THEN header \o Flatten([i \in 1..Len(cs) |-> csvLine(cs[i])]) ELSE <<>>)]]
           : ej \in BOOLEAN, ec \in BOOLEAN,
             js \in SeqsUpTo(InitRecords, MaxRows), cs \in SeqsUpTo(InitRecords, MaxRows) }

InitStorage == \E store \in InitStores : InitWith(store, "mkdir", "pending")

\* the store is recorded when a run returns, and ensureStorage is called again
Rerun ==
  /\ pc[Startup] = "done"
  /\ started = "ok"
  /\ Len(snaps) <= MaxRuns
  /\ snaps' = Append(snaps, Store)
  /\ IF Len(snaps') <= MaxRuns
     THEN pc' = [pc EXCEPT ![Startup] = "mkdir"] /\ started' = "pending"
     ELSE UNCHANGED <<pc, started>>
  /\ UNCHANGED <<dirExists, exists, data, body, res, rec, now, arrived,
                 overlap, appends>>

EnsureStep ==
  \/ Mkdir(Startup)
  \/ AccessJsonl(Startup)
  \/ WriteJsonl(Startup)
  \/ AccessCsv(Startup)
  \/ WriteCsv(Startup)

NextInit == EnsureStep \/ Rerun

SpecInit == InitStorage /\ [][NextInit]_vars

(* ------------------------- reading the files back --------------------- *)

\* the pieces of s that end at the positions in ends, each without the
\* character that ends it
SplitAt(s, ends) ==
  [k \in 1..Cardinality(ends) |->
     LET e == CHOOSE i \in ends : Cardinality({j \in ends : j <= i}) = k
         before == {j \in ends : j < e}
         b == IF before = {} THEN 1
              ELSE 1 + (CHOOSE j \in before : \A l \in before : l <= j)
     IN  SubSeq(s, b, e - 1)]

\* the newline-terminated lines of a text, each without its line feed
Lines(s) == SplitAt(s, {i \in 1..Len(s) : s[i] = LF})

\* the records of a CSV text as RFC 4180 reads it: a line feed between
\* double quotes belongs to the cell, any other ends the record
CsvRecords(s) ==
  SplitAt(s, {i \in 1..Len(s) :
                /\ s[i] = LF
                /\ Cardinality({j \in 1..(i - 1) : s[j] = Quote}) % 2 = 0})

NumLF(s) == Cardinality({i \in 1..Len(s) : s[i] = LF})

WithoutLF(line) == SubSeq(line, 1, Len(line) - 1)

DataRows == IF exists[CSV_PATH] THEN Tail(CsvRecords(data[CSV_PATH])) ELSE <<>>

JsonLines == Lines(data[JSONL_PATH])

\* the requests answered 200, in the order they were received
RECURSIVE AcceptedFrom(_)
AcceptedFrom(r) ==
  IF r \notin Reqs THEN <<>>
  ELSE (IF res[r].status = 200 THEN <<r>> ELSE <<>>) \o AcceptedFrom(r + 1)

Accepted == AcceptedFrom(1)

RECURSIVE Sum(_, _)
Sum(f, S) ==
  IF S = {} THEN 0 ELSE LET x == CHOOSE y \in S : TRUE IN f[x] + Sum(f, S \ {x})

Quiescent == InFlight = {}

NoFailure == \A r \in Reqs : res[r].status # 500

(* -------------------------------- claims ------------------------------ *)

\* C1: the store is append-only and the initializer never truncates: in
\* every step, a file that exists still exists afterwards and its old
\* content is a prefix of its new content.
C1_AppendOnly ==
  [][\A f \in Paths : exists[f] => (exists'[f] /\ IsPrefix(data[f], data'[f]))]_vars

\* C2 as stated: after N >= 1 valid submissions handled one after another
\* with no failure, submissoes.jsonl has exactly N newline-terminated lines
\* and submissoes.csv exactly N+1, and the k-th line of each file is the
\* k-th submission.
C2_LineCounts ==
  (Quiescent /\ NoFailure /\ Len(Accepted) >= 1) =>
    LET N == Len(Accepted)
        csvLines == Lines(data[CSV_PATH])
    IN  /\ NumLF(data[JSONL_PATH]) = N
        /\ NumLF(data[CSV_PATH]) = N + 1
        /\ Len(JsonLines) = N
        /\ Len(csvLines) = N + 1
        /\ csvLines[1] = WithoutLF(header)
        /\ \A k \in 1..N :
             /\ JsonLines[k] = JSONStringify(rec[Accepted[k]])
             /\ csvLines[k + 1] = WithoutLF(csvLine(rec[Accepted[k]]))

\* C2 as amended: after N >= 1 valid submissions handled one after another
\* with no failure, submissoes.jsonl has exactly N newline-terminated lines
\* and submissoes.csv exactly N+1 records (the header and N data rows), the
\* k-th of each being the k-th submission; the CSV file has N+1
\* newline-terminated lines plus one for every line feed in a name.
C2_RoundTrip ==
  (Quiescent /\ NoFailure /\ Len(Accepted) >= 1) =>
    LET N == Len(Accepted)
        records == CsvRecords(data[CSV_PATH])
        feeds == [r \in Reqs |-> IF res[r].status = 200 THEN NumLF(rec[r].nome) ELSE 0]
    IN  /\ exists[JSONL_PATH] /\ exists[CSV_PATH]
        /\ NumLF(data[JSONL_PATH]) = N
        /\ Len(JsonLines) = N
        /\ data[JSONL_PATH][Len(data[JSONL_PATH])] = LF
        /\ Len(records) = N + 1
        /\ data[CSV_PATH][Len(data[CSV_PATH])] = LF
        /\ NumLF(data[CSV_PATH]) = N + 1 + Sum(feeds, Reqs)
        /\ records[1] = WithoutLF(header)
        /\ \A k \in 1..N :
             /\ JsonLines[k] = JSONStringify(rec[Accepted[k]])
             /\ rec[Accepted[k]].nome = body[Accepted[k]].nome.s
             /\ rec[Accepted[k]].email = body[Accepted[k]].email.s
             /\ records[k + 1] = WithoutLF(csvLine(rec[Accepted[k]]))

\* C2 witness: two submissions were stored one after another, in a store
\* that did not exist before, and the name of one holds a line feed.
C2_Witness ==
  /\ Quiescent /\ NoFailure /\ Len(Accepted) = 2
  /\ started = "failed"
  /\ NumLF(rec[1].nome) = 1
  /\ NumLF(rec[2].nome) = 0

\* C3: whenever submissoes.csv exists its first line is the header, the
\* header occurs exactly once and before every data row, and a request that
\* is about to append (or has appended) its row writes to a file that has it.
C3_HeaderOnce ==
  /\ exists[CSV_PATH] =>
       LET records == CsvRecords(data[CSV_PATH])
           lines == Lines(data[CSV_PATH])
       IN  /\ IsPrefix(header, data[CSV_PATH])
           /\ Len(records) >= 1 /\ records[1] = WithoutLF(header)
           /\ \A k \in 2..Len(records) : records[k] # WithoutLF(header)
           /\ \A k \in 2..Len(lines) : lines[k] # WithoutLF(header)
  /\ \A r \in Reqs :
       (pc[r] \in {"appendJsonl", "appendCsv"} \/ CSV_PATH \in {appends[r][i] : i \in 1..Len(appends[r])})
         => exists[CSV_PATH]

\* C3 witness: two requests ran together with the listen callback on a store
\* that did not exist, and both rows are in the CSV file under the header.
C3_Witness ==
  /\ overlap
  /\ snaps[1] = AbsentStore
  /\ Len(DataRows) = 2
  /\ \A r \in {1, 2} : res[r].status = 200

\* what the claims call an invalid name and an invalid email
NomeInvalid(b) == b.nome.t # "string" \/ Len(Trim(b.nome.s)) < 2

EmailInvalid(b) == b.email.t # "string" \/ ~emailRegex(b.email.s)

Received(r) == pc[r] # "idle"

\* C4: for every payload object the rules are applied in order and the
\* first failure wins: a bad nome is answered 400 with the name message
\* whatever the email, otherwise a bad email is answered 400 with the email
\* message, otherwise the payload is accepted (no 400).
C4_FirstFailureWins ==
  \A r \in Reqs :
    (Received(r) /\ body[r].t = "object") =>
      IF NomeInvalid(body[r])
      THEN pc[r] = "done" /\ res[r] = [status |-> 400, message |-> NomeMessage]
      ELSE IF EmailInvalid(body[r])
      THEN pc[r] = "done" /\ res[r] = [status |-> 400, message |-> EmailMessage]
      ELSE res[r].status # 400 /\ (pc[r] = "done" => res[r].status \in {200, 500})

\* C4 witness: a payload whose nome and email are both invalid was answered
\* with the name message.
C4_Witness ==
  /\ body[1].t = "object"
  /\ body[1].nome.t = "string" /\ Len(body[1].nome.s) = 3
  /\ NomeInvalid(body[1])
  /\ body[1].email.t = "string" /\ EmailInvalid(body[1])
  /\ res[1] = [status |-> 400, message |-> NomeMessage]

\* C5: the validator is total, so every malformed payload (no object,
\* fields missing, null or of another type, strings that break a rule) is
\* answered 400 and never 500.
C5_Total ==
  \A r \in Reqs :
    (Received(r) /\ (body[r].t # "object" \/ NomeInvalid(body[r]) \/ EmailInvalid(body[r])))
      => res[r].status = 400

\* C6: a request whose payload fails validation changes nothing in
\* storage: its only step is the one that answers 400, and that step leaves
\* the directory and both files as they were.
C6_InvalidWritesNothing ==
  [][\A r \in Reqs :
       /\ (pc[r] = "idle" /\ pc'[r] # "idle" /\ ~validatePayload(body'[r]).ok)
            => (Store' = Store /\ pc'[r] = "done")
       /\ (pc[r] = "done" /\ res[r].status = 400)
            => (pc'[r] = "done" /\ appends'[r] = <<>>)]_vars

\* C6 witness: a payload that fails validation was answered 400 while the
\* store did not exist yet.
C6_Witness ==
  \E r \in Reqs :
    /\ res[r].status = 400
    /\ ~dirExists
    /\ appends[r] = <<>>

Valid(r) == Received(r) /\ validatePayload(body[r]).ok

\* what holds of every request in every state: see C7
C7_Inv ==
  \A r \in Reqs :
    /\ res[r].status = 200 => appends[r] = <<JSONL_PATH, CSV_PATH>>
    /\ appends[r] \in {<<>>, <<JSONL_PATH>>, <<JSONL_PATH, CSV_PATH>>}
    /\ (Valid(r) /\ pc[r] = "done" /\ appends[r] # <<JSONL_PATH, CSV_PATH>>)
         => res[r] = [status |-> 500, message |-> InternalMessage]
    /\ res[r].status = 500 => res[r].message = InternalMessage

\* C7: for a payload that passed validation, 200 is sent only after both
\* appends of the request completed, each once and JSONL first; a request
\* that ended without both is answered 500 with the fixed message; the step
\* that answers 500 leaves the files as they are (nothing is rolled back).
C7_FailuresAre500 ==
  /\ []C7_Inv
  /\ [][\A r \in Reqs : (res[r].status = 0 /\ res'[r].status = 500)
          => (exists' = exists /\ data' = data /\ pc'[r] = "done")]_vars

\* C7 witness: one request was answered 500 after its JSONL append, whose
\* line is still in the file, and another was answered 200.
C7_Witness ==
  /\ res[1].status = 500 /\ appends[1] = <<JSONL_PATH>>
  /\ res[2].status = 200
  /\ Len(JsonLines) = 2

\* C8: running ensureStorage to completion twice in a row leaves the store
\* that running it once leaves, and a file that existed before keeps its
\* content: no data row is lost and no second header is written.
C8_Idempotent ==
  /\ \A i \in 3..Len(snaps) : snaps[i] = snaps[2]
  /\ \A i \in 2..Len(snaps) :
       /\ snaps[i].dir
       /\ \A f \in Paths :
            /\ snaps[i].exists[f]
            /\ snaps[i].data[f] =
                 IF snaps[1].exists[f] THEN snaps[1].data[f]
                 ELSE IF f = CSV_PATH THEN header ELSE <<>>

\* C8 witness: ensureStorage returned twice on a store whose CSV file held
\* two data rows and whose JSONL file was missing.
C8_Witness ==
  /\ Len(snaps) = 3
  /\ snaps[1].exists[CSV_PATH] /\ ~snaps[1].exists[JSONL_PATH]
  /\ Len(CsvRecords(snaps[1].data[CSV_PATH])) = 3

Persisting == {r \in Reqs : rec[r] # NoRecord}

Appended(f) == {r \in Reqs : \E i \in 1..Len(appends[r]) : appends[r][i] = f}

\* for every k the k-th JSONL line and the k-th CSV data row are the two
\* serialisations of one submission
Correspond ==
  /\ Len(JsonLines) = Len(DataRows)
  /\ \A k \in 1..Len(JsonLines) :
       \E r \in Persisting :
         /\ JsonLines[k] = JSONStringify(rec[r])
         /\ DataRows[k] = WithoutLF(csvLine(rec[r]))

NoneBetweenAppends == \A r \in Reqs : pc[r] # "appendCsv"

\* C9 as stated: in every state in which no request is between its two
\* appends, also after concurrent requests interleaved, the JSONL lines and
\* the CSV data rows correspond 1:1 in the same order.  (Read in the
\* claim's favour: no append failed and every appended line is still in its
\* file, so that neither a failure nor a truncation is what breaks it.)
C9_SameOrder ==
  ( /\ NoneBetweenAppends
    /\ NoFailure
    /\ Len(JsonLines) = Cardinality(Appended(JSONL_PATH))
    /\ Len(DataRows) = Cardinality(Appended(CSV_PATH)) )
  => Correspond

\* C9 as amended: when the requests are handled one at a time (each is
\* received after the listen callback and every earlier request are over)
\* and no request failed after its JSONL append, then in every state in
\* which no request is between its two appends the JSONL lines and the CSV
\* data rows correspond 1:1 in the same order.
C9_SameOrderSequential ==
  ( /\ NoneBetweenAppends
    /\ ~overlap
    /\ \A r \in Reqs : res[r].status = 500 => appends[r] = <<>> )
  => Correspond

\* C9 witness: two requests were handled one after the other, at different
\* times, and both are stored.
C9_Witness ==
  /\ ~overlap
  /\ Quiescent
  /\ \A r \in {1, 2} : res[r].status = 200
  /\ rec[1].timestamp # rec[2].timestamp
  /\ Len(DataRows) = 2

\* C10: every submission that has a data row in submissoes.csv also has its
\* line in submissoes.jsonl, and the CSV data rows never outnumber the
\* JSONL lines.
C10_JsonBeforeCsv ==
  /\ Len(DataRows) <= Len(JsonLines)
  /\ \A k \in 1..Len(DataRows) :
       \E r \in Persisting :
         /\ DataRows[k] = WithoutLF(csvLine(rec[r]))
         /\ \E j \in 1..Len(JsonLines) : JsonLines[j] = JSONStringify(rec[r])

====
